---- MODULE Spec2Model ----
(***************************************************************************)
(* Model of inselect/lib/metadata.py: the metadata template, its           *)
(* single-field and single-record validation, label derivation and the     *)
(* document traversal that reports problems to a visitor.                  *)
(*                                                                         *)
(* A box's 'fields' dict is a function from a finite set of keys to        *)
(* strings.  Lists are sequences.  Python's 0-based record indices are     *)
(* kept in the reported events (record k of the sequence has index k-1).   *)
(***************************************************************************)
EXTENDS Integers, Sequences, FiniteSets, TLC

VARIABLES template, parse_order, doc, last, collector, spec, held, threads

vars == <<template, parse_order, doc, last, collector, spec, held, threads>>

(***************************************************************************)
(* Bounds                                                                  *)
(***************************************************************************)
MaxRecords == 2

(***************************************************************************)
(* Values.  None is what dict.get returns for a missing key.               *)
(***************************************************************************)
None == "<None>"

Values == {"", "M", "x"}

Falsy(v) == v = None \/ v = ""

NoParser == "none"

NoChoices == <<>>

(***************************************************************************)
(* A parser is an opaque callable of the template spec that returns a      *)
(* value or signals failure by raising ValueError.  "letter" accepts a     *)
(* single upper-case letter: it fails on the empty string and on "x".      *)
(***************************************************************************)
parse(parser, v) == IF parser = "letter" /\ v \in {"M", "F"} THEN "ok" ELSE "ValueError"

(***************************************************************************)
(* Field definitions and the templates the model is run with.  These are  *)
(* values for which MetadataTemplate.__init__ succeeds.                    *)
(***************************************************************************)
Field(name, mandatory, parser, cwd) ==
    [Name |-> name, Mandatory |-> mandatory, Parser |-> parser, ChoicesWithData |-> cwd]

SexChoices == << <<"M", "Male">>, <<"F", "Female">> >>

Ph(name) == [kind |-> "placeholder", text |-> name]

Lit(text) == [kind |-> "literal", text |-> text]

DefaultLabel == << Ph("catalogNumber") >>

Templates ==
    { [fields |-> << Field("catalogNumber", TRUE, NoParser, NoChoices) >>,
       label |-> DefaultLabel],
      [fields |-> << Field("sex", FALSE, NoParser, SexChoices) >>,
       label |-> << Ph("sex-value") >>],
      [fields |-> << Field("sex", TRUE, "letter", SexChoices) >>,
       label |-> << Ph("sex"), Ph("sex-value") >>],
      [fields |-> << Field("catalogNumber", TRUE, "letter", NoChoices),
                     Field("location", TRUE, "letter", NoChoices) >>,
       label |-> DefaultLabel],
      [fields |-> << Field("location", FALSE, "letter", NoChoices) >>,
       label |-> << Ph("location"), Lit("/"), Ph("catalogNumber") >>] }

(***************************************************************************)
(* Sequence helpers                                                        *)
(***************************************************************************)
Range(s) == {s[i] : i \in DOMAIN s}

Perms(S) == {s \in [1..Cardinality(S) -> S] : Range(s) = S}

RECURSIVE Flatten(_)
Flatten(ss) == IF ss = <<>> THEN <<>> ELSE Head(ss) \o Flatten(Tail(ss))

(***************************************************************************)
(* MetadataTemplate.__init__: the derived lookups                          *)
(***************************************************************************)
HasChoicesWithData(f) == f.ChoicesWithData # NoChoices

HasParser(f) == f.Parser # NoParser

IsMandatoryField(f) == f.Mandatory

DeclaredNames(t) == {t.fields[i].Name : i \in DOMAIN t.fields}

_fields_mapping(t) == [n \in DeclaredNames(t) |-> CHOOSE f \in Range(t.fields) : f.Name = n]

_choices_with_data_mapping(t) == SelectSeq(t.fields, HasChoicesWithData)

_parse_mapping(t) ==
    [n \in {m \in DeclaredNames(t) : HasParser(_fields_mapping(t)[m])} |-> _fields_mapping(t)[n].Parser]

(* the mandatory list built in the reverse of the declared order *)
mandatory_reversed(t) ==
    LET m == SelectSeq(t.fields, IsMandatoryField)
    IN  [i \in DOMAIN m |-> m[Len(m) + 1 - i].Name]

mandatory(t) ==
    LET m == SelectSeq(t.fields, IsMandatoryField)
    IN  [i \in DOMAIN m |-> m[i].Name]

ValueField(name) == name \o "-value"

(***************************************************************************)
(* dict helpers                                                            *)
(***************************************************************************)
Get(md, k) == IF k \in DOMAIN md THEN md[k] ELSE None

Put(md, k, v) == [j \in DOMAIN md \cup {k} |-> IF j = k THEN v ELSE md[j]]

Labels(cwd) == {cwd[i][1] : i \in DOMAIN cwd}

Data(cwd, label) == cwd[CHOOSE i \in DOMAIN cwd : cwd[i][1] = label][2]

(***************************************************************************)
(* box_metadata: md is the box's own 'fields' dict (no copy is taken), the *)
(* synthesized entries are stored into it and it is returned.  The order   *)
(* in which the ChoicesWithData fields are iterated does not change the    *)
(* result: no synthesized name is a declared name.                         *)
(***************************************************************************)
RECURSIVE SynthesizeValues(_, _)
SynthesizeValues(c, md) ==
    IF c = <<>> THEN md
    ELSE LET field == Head(c)
             raw == Get(md, field.Name)
         IN  IF raw \in Labels(field.ChoicesWithData)
             THEN SynthesizeValues(Tail(c),
                      Put(md, ValueField(field.Name), Data(field.ChoicesWithData, raw)))
             ELSE SynthesizeValues(Tail(c), md)

Returned(md) == [returned |-> md, fields |-> md, same_object |-> TRUE]

box_metadata(t, fields) == Returned(SynthesizeValues(_choices_with_data_mapping(t), fields))

(***************************************************************************)
(* FormatDefault(default='').format: a placeholder missing from the        *)
(* keyword arguments is replaced by the empty string.                      *)
(***************************************************************************)
RECURSIVE _format_label(_, _)
_format_label(fmt, md) ==
    IF fmt = <<>> THEN ""
    ELSE LET seg == Head(fmt)
             text == IF seg.kind = "literal" THEN seg.text
                     ELSE IF seg.text \in DOMAIN md THEN md[seg.text] ELSE ""
         IN  text \o _format_label(Tail(fmt), md)

Formatted(t, bm) == [returned |-> _format_label(t.label, bm.returned), fields |-> bm.fields]

(* the label formatted from the raw fields, without the synthesized entries *)
format_label_raw_fields(t, fields) == Formatted(t, Returned(fields))

format_label(t, fields) == Formatted(t, box_metadata(t, fields))

(***************************************************************************)
(* validate_box and validate_field.  The result is "True", "False" or the  *)
(* name of an exception that leaves the method.                            *)
(***************************************************************************)
Parseable(po, md) == SelectSeq(po, LAMBDA k : k \in DOMAIN md)

RECURSIVE FirstRaised(_, _, _)
FirstRaised(t, ks, md) ==
    IF ks = <<>> THEN "ok"
    ELSE LET r == parse(_parse_mapping(t)[Head(ks)], md[Head(ks)])
         IN  IF r # "ok" THEN r ELSE FirstRaised(t, Tail(ks), md)

(* validate_box that, like validate_field, hands only non-empty values to the parser *)
validate_box_skips_empty(t, po, md) ==
    IF \E i \in DOMAIN mandatory(t) : Falsy(Get(md, mandatory(t)[i]))
    THEN "False"
    ELSE LET nonempty == SelectSeq(Parseable(po, md), LAMBDA k : ~Falsy(md[k]))
             raised == FirstRaised(t, nonempty, md)
         IN  IF raised = "ok" THEN "True" ELSE "False"

(* validate_box whose except clause does not match the parser's exception *)
validate_box_uncaught(t, po, md) ==
    IF \E i \in DOMAIN mandatory(t) : Falsy(Get(md, mandatory(t)[i]))
    THEN "False"
    ELSE LET raised == FirstRaised(t, Parseable(po, md), md)
         IN  IF raised = "ok" THEN "True" ELSE raised

validate_box(t, po, md) ==
    IF \E i \in DOMAIN mandatory(t) : Falsy(Get(md, mandatory(t)[i]))
    THEN "False"
    ELSE LET raised == FirstRaised(t, Parseable(po, md), md)
         IN  IF raised = "ok" THEN "True"
             ELSE IF raised = "ValueError" THEN "False"
             ELSE raised

(* validate_field that treats a field the template does not declare as invalid *)
validate_field_rejects_unknown(t, field, value) ==
    IF field \notin DOMAIN _fields_mapping(t) THEN "False"
    ELSE IF Falsy(value) /\ field \in Range(mandatory(t)) THEN "False"
    ELSE IF ~Falsy(value) /\ field \in DOMAIN _parse_mapping(t)
         THEN IF parse(_parse_mapping(t)[field], value) = "ok" THEN "True" ELSE "False"
    ELSE "True"

(* validate_field that consults the parser for an empty value too *)
validate_field_parses_empty(t, field, value) ==
    IF field \notin DOMAIN _fields_mapping(t) THEN "True"
    ELSE IF Falsy(value) /\ field \in Range(mandatory(t)) THEN "False"
    ELSE IF field \in DOMAIN _parse_mapping(t)
         THEN IF parse(_parse_mapping(t)[field], value) = "ok" THEN "True" ELSE "False"
    ELSE "True"

validate_field(t, field, value) ==
    IF field \notin DOMAIN _fields_mapping(t) THEN "True"
    ELSE IF Falsy(value) /\ field \in Range(mandatory(t)) THEN "False"
    ELSE IF ~Falsy(value) /\ field \in DOMAIN _parse_mapping(t)
         THEN LET raised == parse(_parse_mapping(t)[field], value)
              IN  IF raised = "ok" THEN "True"
                  ELSE IF raised = "ValueError" THEN "False"
                  ELSE raised
    ELSE "True"

(***************************************************************************)
(* The calls a traversal makes on its visitor.  index is -1 and label and  *)
(* field are empty where the callback does not take them.                  *)
(***************************************************************************)
Event(ev, index, label, field) == [ev |-> ev, index |-> index, label |-> label, field |-> field]

(***************************************************************************)
(* _visit_box: the label is formatted first (which stores the synthesized  *)
(* entries into the box), then the mandatory list is walked, then the      *)
(* parse mapping in its dict iteration order po.  An exception other than  *)
(* ValueError leaves the loop and the traversal.                           *)
(***************************************************************************)
First(S) == CHOOSE k \in S : \A j \in S : k <= j

Reported(ev, index, label, names) ==
    [i \in DOMAIN names |-> Event(ev, index, label, names[i])]

ParseLoop(ks, outcome, escapes, index, box_label) ==
    [events |-> Reported("failed_parse", index, box_label,
                    SelectSeq(SubSeq(ks, 1, IF escapes = {} THEN Len(ks) ELSE First(escapes) - 1),
                              LAMBDA k : outcome[k] = "ValueError")),
     raised |-> IF escapes = {} THEN "ok" ELSE outcome[ks[First(escapes)]]]

ParseOutcomes(ks, outcome, index, box_label) ==
    ParseLoop(ks, outcome, {i \in DOMAIN ks : outcome[ks[i]] \notin {"ok", "ValueError"}},
              index, box_label)

VisitParseable(t, ks, md, index, box_label) ==
    ParseOutcomes(ks, [k \in Range(ks) |-> parse(_parse_mapping(t)[k], md[k])], index, box_label)

(* the failed_parse calls of a box made before its missing_mandatory calls *)
BoxVisited_parse_first(missing, parsed, md) ==
    [events |-> parsed.events \o missing, raised |-> parsed.raised, fields |-> md]

BoxVisited(missing, parsed, md) ==
    [events |-> missing \o parsed.events, raised |-> parsed.raised, fields |-> md]

VisitFormatted(t, po, index, fl) ==
    BoxVisited(Reported("missing_mandatory", index, fl.returned,
                   SelectSeq(mandatory(t), LAMBDA f : Falsy(Get(fl.fields, f)))),
               VisitParseable(t, Parseable(po, fl.fields), fl.fields, index, fl.returned),
               fl.fields)

_visit_box(t, po, index, fields) == VisitFormatted(t, po, index, format_label(t, fields))

(***************************************************************************)
(* _visit_boxes: enumerate(document.items), stopping only if an exception  *)
(* leaves _visit_box.  k is the position in the sequence, k-1 the index.   *)
(* What _visit_box does to a box depends on that box alone.                *)
(***************************************************************************)
BoxesVisited(d, visited, escapes, reached) ==
    [events |-> Flatten([k \in 1..reached |-> visited[k].events]),
     raised |-> IF escapes = {} THEN "ok" ELSE visited[reached].raised,
     doc |-> [k \in DOMAIN d |-> IF k <= reached THEN visited[k].fields ELSE d[k]]]

(* a box loop that stops after the first box that has a problem *)
BoxStop_at_first_problem(d, visited, escapes) ==
    BoxesVisited(d, visited, {},
                 IF {k \in DOMAIN d : visited[k].events # <<>>} = {} THEN Len(d)
                 ELSE First({k \in DOMAIN d : visited[k].events # <<>>}))

BoxStop(d, visited, escapes) ==
    BoxesVisited(d, visited, escapes, IF escapes = {} THEN Len(d) ELSE First(escapes))

BoxLoop(d, visited) == BoxStop(d, visited, {k \in DOMAIN d : visited[k].raised # "ok"})

_visit_boxes(t, po, d) == BoxLoop(d, [k \in DOMAIN d |-> _visit_box(t, po, k - 1, d[k])])

(***************************************************************************)
(* _visit_labels: every label is formatted again; the indices of the empty *)
(* ones are reported in increasing order; co is the order in which the     *)
(* iteration of Counter(labels), a dict, yields the labels that pass the   *)
(* filter 'v and n > 1'.                                                   *)
(***************************************************************************)
Count(labels, l) == Cardinality({i \in DOMAIN labels : labels[i] = l})

FormatAll(t, d) == [k \in DOMAIN d |-> format_label(t, d[k])]

LabelList(formatted) == [k \in DOMAIN formatted |-> formatted[k].returned]

(* indices counted from one *)
Unlabelled_from_one(labels) ==
    SelectSeq([k \in DOMAIN labels |-> k], LAMBDA i : Falsy(labels[i]))

Unlabelled(labels) ==
    SelectSeq([k \in DOMAIN labels |-> k - 1], LAMBDA i : Falsy(labels[i + 1]))

(* one report per record that has a duplicated label *)
DuplicatedIn_per_occurrence(labels, co) ==
    SelectSeq(labels, LAMBDA v : ~Falsy(v) /\ Count(labels, v) > 1)

DuplicatedIn(labels, co) == SelectSeq(co, LAMBDA v : ~Falsy(v) /\ Count(labels, v) > 1)

MissingLabelEvents(indices) ==
    [i \in DOMAIN indices |-> Event("missing_label", indices[i], "", "")]

DuplicatedLabelEvents(duplicates) ==
    [i \in DOMAIN duplicates |-> Event("duplicated_labels", -1, duplicates[i], "")]

LabelsVisited(formatted, labels, co) ==
    [events |-> MissingLabelEvents(Unlabelled(labels))
                \o DuplicatedLabelEvents(DuplicatedIn(labels, co)),
     doc |-> [k \in DOMAIN formatted |-> formatted[k].fields]]

LabelsFormatted(formatted, co) == LabelsVisited(formatted, LabelList(formatted), co)

_visit_labels(t, d, co) == LabelsFormatted(FormatAll(t, d), co)

DuplicatedSet(labels) ==
    {labels[k] : k \in {j \in DOMAIN labels : ~Falsy(labels[j]) /\ Count(labels, labels[j]) > 1}}

Duplicated(t, d) == DuplicatedSet(LabelList(FormatAll(t, d)))

(***************************************************************************)
(* visit_document with a visitor whose callbacks return normally           *)
(* (MetadataVisitor).  end_visit is called unless an exception left one    *)
(* of the two passes.                                                      *)
(***************************************************************************)
(* a traversal that calls end_visit before the label pass *)
DocumentVisited_end_before_labels(visited, labelled) ==
    [events |-> <<Event("begin_visit", -1, "", "")>> \o visited.events
                \o <<Event("end_visit", -1, "", "")>> \o labelled.events,
     raised |-> "ok", doc |-> labelled.doc]

DocumentVisited(visited, labelled) ==
    IF visited.raised # "ok"
    THEN [events |-> <<Event("begin_visit", -1, "", "")>> \o visited.events,
          raised |-> visited.raised, doc |-> visited.doc]
    ELSE [events |-> <<Event("begin_visit", -1, "", "")>> \o visited.events
                     \o labelled.events \o <<Event("end_visit", -1, "", "")>>,
          raised |-> "ok", doc |-> labelled.doc]

LabelsAfter(t, visited, co) == DocumentVisited(visited, _visit_labels(t, visited.doc, co))

visit_document(t, po, d, co) == LabelsAfter(t, _visit_boxes(t, po, d), co)

(***************************************************************************)
(* CollectVisitor.  Its four lists are attributes that begin_visit         *)
(* creates: an instance on which begin_visit was never called has none     *)
(* (begun is FALSE).  The components of a namedtuple are Python values of  *)
(* either type, kept with their type: <<"int", i>> or <<"str", s>>.        *)
(***************************************************************************)
PyInt(i) == <<"int", i>>

PyStr(s) == <<"str", s>>

MissingMandatory(index, label, field) == [index |-> index, label |-> label, field |-> field]

FailedParse(index, label, field) == [index |-> index, label |-> label, field |-> field]

FreshCollector ==
    [begun |-> FALSE, missing_mandatory |-> <<>>, failed_parse |-> <<>>,
     missing_label |-> <<>>, duplicated_labels |-> <<>>]

(* begin_visit that keeps what the lists already hold *)
CollectVisitor_begin_visit_keeps(c) == [c EXCEPT !.begun = TRUE]

CollectVisitor_begin_visit(c) ==
    [begun |-> TRUE, missing_mandatory |-> <<>>, failed_parse |-> <<>>,
     missing_label |-> <<>>, duplicated_labels |-> <<>>]

CollectVisitor_missing_mandatory(c, index, label, field) ==
    [c EXCEPT !.missing_mandatory =
        Append(@, MissingMandatory(PyInt(index), PyStr(label), PyStr(field)))]

CollectVisitor_failed_parse(c, index, label, field) ==
    [c EXCEPT !.failed_parse =
        Append(@, FailedParse(PyStr(field), PyInt(index), PyStr(label)))]

CollectVisitor_missing_label(c, index) ==
    [c EXCEPT !.missing_label = Append(@, index)]

CollectVisitor_duplicated_labels(c, label) ==
    [c EXCEPT !.duplicated_labels = Append(@, label)]

Callback(c, e) ==
    CASE e.ev = "begin_visit" -> CollectVisitor_begin_visit(c)
      [] e.ev = "missing_mandatory" -> CollectVisitor_missing_mandatory(c, e.index, e.label, e.field)
      [] e.ev = "failed_parse" -> CollectVisitor_failed_parse(c, e.index, e.label, e.field)
      [] e.ev = "missing_label" -> CollectVisitor_missing_label(c, e.index)
      [] e.ev = "duplicated_labels" -> CollectVisitor_duplicated_labels(c, e.label)
      [] OTHER -> c

RECURSIVE Deliver(_, _)
Deliver(c, events) ==
    IF events = <<>> THEN c ELSE Deliver(Callback(c, Head(events)), Tail(events))

(***************************************************************************)
(* all_problems and ValidationProblems.  Reading the lists of an instance  *)
(* that has none raises AttributeError.                                    *)
(***************************************************************************)
ValidationProblems(missing_mandatory, failed_parse, missing_label, duplicated_labels) ==
    [missing_mandatory |-> missing_mandatory, failed_parse |-> failed_parse,
     missing_label |-> missing_label, duplicated_labels |-> duplicated_labels]

NoReport == ValidationProblems(<<>>, <<>>, <<>>, <<>>)

all_problems(c) ==
    IF ~c.begun
    THEN [raised |-> "AttributeError", returned |-> NoReport]
    ELSE [raised |-> "ok",
          returned |-> ValidationProblems(c.missing_mandatory, c.failed_parse,
                                          c.missing_label, c.duplicated_labels)]

(* any_problems that leaves the duplicated labels out *)
any_problems_without_duplicated(report) ==
    \/ report.missing_mandatory # <<>>
    \/ report.failed_parse # <<>>
    \/ report.missing_label # <<>>

any_problems(report) ==
    \/ report.missing_mandatory # <<>>
    \/ report.failed_parse # <<>>
    \/ report.missing_label # <<>>
    \/ report.duplicated_labels # <<>>

(***************************************************************************)
(* State.  template and parse_order are fixed by construction; doc is the  *)
(* caller's document; last is the most recent call on the template with    *)
(* what it returned (op "none" before any call and after a caller's edit). *)
(***************************************************************************)
(* The template specification {}: no key is present. *)
NoSpec ==
    [HasName |-> FALSE, Name |-> "", HasLabel |-> FALSE, Label |-> <<>>,
     HasSuffix |-> FALSE, Suffix |-> "", HasFields |-> FALSE, Fields |-> <<>>]

(* No report has been obtained from a collector. *)
NoHeld == [obtained |-> FALSE, shares |-> FALSE, lists |-> NoReport]

NoCall ==
    [op |-> "none", index |-> -1, field |-> "", value |-> "", result |-> "",
     md |-> <<>>, same_object |-> FALSE, events |-> <<>>, report |-> NoReport,
     names |-> <<>>, before |-> FreshCollector, spec |-> NoSpec]

RecordInputs(t) == UNION {[D -> Values] : D \in SUBSET DeclaredNames(t)}

FieldArguments(t) == DeclaredNames(t) \cup {"unknown"}

Init ==
    /\ template \in Templates
    /\ parse_order \in Perms(DOMAIN _parse_mapping(template))
    /\ doc = <<>>
    /\ last = NoCall
    /\ collector = FreshCollector
    /\ spec = NoSpec
    /\ held = NoHeld
    /\ threads = <<>>

(* The caller appends a record to its document. *)
AddRecord ==
    /\ Len(doc) < MaxRecords
    /\ \E fields \in RecordInputs(template) : doc' = Append(doc, fields)
    /\ last' = NoCall
    /\ UNCHANGED <<template, parse_order, collector, spec, held, threads>>

(* The caller edits one raw value of one of its records. *)
SetField ==
    /\ \E k \in DOMAIN doc, name \in DeclaredNames(template), v \in Values :
           doc' = [doc EXCEPT ![k] = Put(doc[k], name, v)]
    /\ last' = NoCall
    /\ UNCHANGED <<template, parse_order, collector, spec, held, threads>>

(* box_metadata that uses up the vocabulary of the template's fields *)
BoxMetadata_consumes_vocabulary ==
    \E k \in DOMAIN doc :
        /\ template' = [template EXCEPT !.fields =
                            [i \in DOMAIN @ |-> [@[i] EXCEPT !.ChoicesWithData = NoChoices]]]
        /\ last' = [NoCall EXCEPT !.op = "box_metadata", !.index = k - 1,
                                  !.md = doc[k], !.same_object = TRUE]
        /\ UNCHANGED <<parse_order, doc, collector, spec, held, threads>>

BoxMetadata ==
    \E k \in DOMAIN doc :
        LET bm == box_metadata(template, doc[k])
        IN  /\ doc' = [doc EXCEPT ![k] = bm.fields]
            /\ last' = [NoCall EXCEPT !.op = "box_metadata", !.index = k - 1,
                                      !.md = bm.returned, !.same_object = bm.same_object]
            /\ UNCHANGED <<template, parse_order, collector, spec, held, threads>>

FormatLabel ==
    \E k \in DOMAIN doc :
        LET fl == format_label(template, doc[k])
        IN  /\ doc' = [doc EXCEPT ![k] = fl.fields]
            /\ last' = [NoCall EXCEPT !.op = "format_label", !.index = k - 1,
                                      !.result = fl.returned]
            /\ UNCHANGED <<template, parse_order, collector, spec, held, threads>>

ValidateBox ==
    \E k \in DOMAIN doc :
        /\ last' = [NoCall EXCEPT !.op = "validate_box", !.index = k - 1,
                                  !.result = validate_box(template, parse_order, doc[k])]
        /\ UNCHANGED <<template, parse_order, doc, collector, spec, held, threads>>

ValidateField ==
    \E field \in FieldArguments(template), value \in Values :
        /\ last' = [NoCall EXCEPT !.op = "validate_field", !.field = field, !.value = value,
                                  !.result = validate_field(template, field, value)]
        /\ UNCHANGED <<template, parse_order, doc, collector, spec, held, threads>>

VisitDocument ==
    \E co \in Perms(Duplicated(template, doc)) :
        LET vd == visit_document(template, parse_order, doc, co)
        IN  /\ doc' = vd.doc
            /\ last' = [NoCall EXCEPT !.op = "visit_document", !.result = vd.raised,
                                      !.events = vd.events]
            /\ UNCHANGED <<template, parse_order, collector, spec, held, threads>>

(***************************************************************************)
(* Spec: a caller that builds and edits a document and calls               *)
(* box_metadata, format_label and visit_document on it.                    *)
(***************************************************************************)
Next ==
    \/ AddRecord
    \/ SetField
    \/ BoxMetadata
    \/ FormatLabel
    \/ VisitDocument

Spec == Init /\ [][Next]_vars

(***************************************************************************)
(* SpecRecord: validate_box and validate_field applied to one record, for  *)
(* every template of one or two fields over FieldNames with every          *)
(* combination of Mandatory, Parser and ChoicesWithData.                   *)
(***************************************************************************)
FieldNames == {"catalogNumber", "sex"}

FieldsNamed(name) ==
    {Field(name, m, p, c) : m \in BOOLEAN, p \in {NoParser, "letter"}, c \in {NoChoices, SexChoices}}

FieldLists ==
    UNION {{<<f>> : f \in FieldsNamed(n)} : n \in FieldNames}
    \cup UNION {{<<f, g>> : f \in FieldsNamed(p[1]), g \in FieldsNamed(p[2])} :
                  p \in {q \in FieldNames \X FieldNames : q[1] # q[2]}}

RecordTemplates == {[fields |-> fs, label |-> DefaultLabel] : fs \in FieldLists}

InitRecord ==
    /\ template \in RecordTemplates
    /\ parse_order \in Perms(DOMAIN _parse_mapping(template))
    /\ \E fields \in RecordInputs(template) : doc = <<fields>>
    /\ last = NoCall
    /\ collector = FreshCollector
    /\ spec = NoSpec
    /\ held = NoHeld
    /\ threads = <<>>

NextRecord ==
    \/ ValidateBox
    \/ ValidateField

SpecRecord == InitRecord /\ [][NextRecord]_vars

(***************************************************************************)
(* Template construction.  A raw field is the dict the caller wrote: Has*  *)
(* says whether the key is present.  CWDKind is the type of the            *)
(* 'ChoicesWithData' value: the caller writes a list of (label, data)      *)
(* pairs, _fields_from_template_spec replaces it by an OrderedDict in the  *)
(* caller's dict.                                                          *)
(***************************************************************************)
RawField(hasName, name, hasChoices, choices, hasCWD, cwd) ==
    [HasName |-> hasName, Name |-> name,
     Mandatory |-> (name = "sex"),
     Parser |-> IF name = "sex" THEN "letter" ELSE NoParser,
     HasChoices |-> hasChoices, Choices |-> choices,
     HasCWD |-> hasCWD, ChoicesWithData |-> cwd, CWDKind |-> "list"]

RawNames == {"sex", "sex-value"}

ChoicesLists == {<<>>, <<"a", "a">>, <<"M", "F">>}

CWDLists == {<<>>, << <<"M", "Male">>, <<"M", "Man">> >>, SexChoices}

RawFields ==
    {RawField(hasName, IF hasName THEN name ELSE "", hasChoices,
              IF hasChoices THEN choices ELSE <<>>, hasCWD,
              IF hasCWD THEN cwd ELSE NoChoices) :
        hasName \in BOOLEAN, name \in RawNames,
        hasChoices \in BOOLEAN, choices \in ChoicesLists,
        hasCWD \in BOOLEAN, cwd \in CWDLists}

RawFieldLists ==
    {<<>>} \cup {<<f>> : f \in RawFields} \cup {<<f, g>> : f \in RawFields, g \in RawFields}

TemplateNames == {"", "T"}

Suffixes == {".png", "png"}

RawSpecs ==
    {[HasName |-> hasName, Name |-> IF hasName THEN name ELSE "",
      HasLabel |-> hasLabel, Label |-> IF hasLabel THEN <<Ph("sex"), Ph("sex-value")>> ELSE <<>>,
      HasSuffix |-> hasSuffix, Suffix |-> IF hasSuffix THEN suffix ELSE "",
      HasFields |-> hasFields, Fields |-> IF hasFields THEN fields ELSE <<>>] :
        hasName \in BOOLEAN, name \in TemplateNames, hasLabel \in BOOLEAN,
        hasSuffix \in BOOLEAN, suffix \in Suffixes,
        hasFields \in BOOLEAN, fields \in RawFieldLists}

NoTemplate ==
    [constructed |-> FALSE, name |-> None, fields |-> <<>>, label |-> <<>>,
     cropped_image_suffix |-> None]

Raised(error, field) == [error |-> error, field |-> field]

Ok == Raised("ok", "")

(* utils.duplicated: the values that occur more than once *)
duplicated(values) == {values[i] : i \in {j \in DOMAIN values : Count(values, values[j]) > 1}}

NamesOf(fields) == [i \in DOMAIN fields |-> fields[i].Name]

SpecLabels(f) == [i \in DOMAIN f.ChoicesWithData |-> f.ChoicesWithData[i][1]]

(* Path('x').with_suffix(suffix).suffix *)
with_suffix(suffix) == IF suffix \in {".png", ".jpg"} THEN suffix ELSE "ValueError"

(* first exception raised by a loop whose iterations gave these results *)
FirstFailure(results) ==
    IF \E i \in DOMAIN results : results[i] # Ok
    THEN results[CHOOSE i \in DOMAIN results :
                    /\ results[i] # Ok
                    /\ \A j \in 1..(i - 1) : results[j] = Ok]
    ELSE Ok

(* the body of the Choices loop without its test for an empty list *)
ChoicesChecked_accepts_empty(f) ==
    IF duplicated(f.Choices) # {} THEN Raised("Duplicated Choices label", f.Name)
    ELSE Ok

ChoicesChecked(f) ==
    IF duplicated(f.Choices) # {} THEN Raised("Duplicated Choices label", f.Name)
    ELSE IF f.Choices = <<>> THEN Raised("Empty Choices", f.Name)
    ELSE Ok

(* 'for label, data in' an OrderedDict iterates its keys and unpacks each
   key, a string: that raises ValueError unless the key has two
   characters.  Every label of CWDLists has one character. *)
Unpacks(f) ==
    \/ f.CWDKind = "list"
    \/ \A i \in DOMAIN f.ChoicesWithData : Len(f.ChoicesWithData[i][1]) = 2

(* the body of the ChoicesWithData loop without its test of value_field *)
CWDChecked_allows_value_field(f, field_names) ==
    IF ~Unpacks(f) THEN Raised("need more than 1 value to unpack", "")
    ELSE IF duplicated(SpecLabels(f)) # {}
    THEN Raised("Duplicated ChoicesWithData label", f.Name)
    ELSE IF f.ChoicesWithData = <<>> THEN Raised("Empty ChoicesWithData", f.Name)
    ELSE Ok

CWDChecked(f, field_names) ==
    IF ValueField(f.Name) \in Range(field_names)
    THEN Raised("cannot be defined", ValueField(f.Name))
    ELSE IF ~Unpacks(f) THEN Raised("need more than 1 value to unpack", "")
    ELSE IF duplicated(SpecLabels(f)) # {}
    THEN Raised("Duplicated ChoicesWithData label", f.Name)
    ELSE IF f.ChoicesWithData = <<>> THEN Raised("Empty ChoicesWithData", f.Name)
    ELSE Ok

WithChoices(fields) == SelectSeq(fields, LAMBDA f : f.HasChoices)

WithCWD(fields) == SelectSeq(fields, LAMBDA f : f.HasCWD)

ChoicesLoop(fields) ==
    [i \in DOMAIN WithChoices(fields) |-> ChoicesChecked(WithChoices(fields)[i])]

CWDLoop(fields) ==
    [i \in DOMAIN WithCWD(fields) |-> CWDChecked(WithCWD(fields)[i], NamesOf(fields))]

BothGiven(fields) == SelectSeq(fields, LAMBDA f : f.HasChoices /\ f.HasCWD)

(* the ChoicesWithData loop run before the Choices loop *)
VocabulariesChecked_cwd_first(fields) ==
    FirstFailure(CWDLoop(fields) \o ChoicesLoop(fields))

VocabulariesChecked(fields) ==
    FirstFailure(ChoicesLoop(fields) \o CWDLoop(fields))

(* the exception _fields_from_template_spec raises, Ok if it returns *)
_fields_from_template_spec(fields) ==
    IF \E i \in DOMAIN fields : ~fields[i].HasName
    THEN Raised("One or more fields do not have a name", "")
    ELSE IF duplicated(NamesOf(fields)) # {}
    THEN Raised("Duplicated fields", "")
    ELSE IF BothGiven(fields) # <<>>
    THEN Raised("Both Choices and ChoicesWithData given", BothGiven(fields)[1].Name)
    ELSE VocabulariesChecked(fields)

(* the fields list as _fields_from_template_spec leaves it when it returns *)
Converted(fields) ==
    [i \in DOMAIN fields |->
        IF fields[i].HasCWD THEN [fields[i] EXCEPT !.CWDKind = "OrderedDict"]
        ELSE fields[i]]

SpecFields(s) == IF s.HasFields THEN s.Fields ELSE <<>>

Compiled(fields) ==
    [i \in DOMAIN fields |->
        Field(fields[i].Name, fields[i].Mandatory, fields[i].Parser,
              IF fields[i].HasCWD THEN fields[i].ChoicesWithData ELSE NoChoices)]

(* the test of the template's name made on the presence of the key alone *)
NameGiven_key_present(s) == s.HasName

NameGiven(s) == s.HasName /\ ~Falsy(s.Name)

(* __init__ after _fields_from_template_spec has returned *)
Initialised(s) ==
    IF ~NameGiven(s) THEN Raised("No template name", "")
    ELSE IF SpecFields(s) = <<>> THEN Raised("No fields", "")
    ELSE IF s.HasSuffix /\ with_suffix(s.Suffix) = "ValueError"
    THEN Raised("Invalid cropped file suffix", "")
    ELSE Ok

Template(s) ==
    [constructed |-> TRUE, name |-> s.Name, fields |-> Compiled(SpecFields(s)),
     label |-> IF s.HasLabel THEN s.Label ELSE DefaultLabel,
     cropped_image_suffix |-> IF s.HasSuffix THEN with_suffix(s.Suffix) ELSE None]

FieldsConverted(s) ==
    IF s.HasFields THEN [s EXCEPT !.Fields = Converted(s.Fields)] ELSE s

Construction(s, raised, after) ==
    [raised |-> raised,
     template |-> IF raised = Ok THEN Template(s) ELSE NoTemplate,
     spec |-> after]

FieldsValidated(s, raised) ==
    IF raised # Ok THEN Construction(s, raised, s)
    ELSE Construction(s, Initialised(s), FieldsConverted(s))

(* MetadataTemplate(spec): the exception raised, the object constructed
   and the caller's spec as the call leaves it *)
MetadataTemplate(s) == FieldsValidated(s, _fields_from_template_spec(SpecFields(s)))

(* the synthesized names yielded after all the declared names *)
field_names_derived_last(t) ==
    [i \in DOMAIN t.fields |-> t.fields[i].Name]
    \o [i \in DOMAIN _choices_with_data_mapping(t) |->
            ValueField(_choices_with_data_mapping(t)[i].Name)]

field_names(t) ==
    Flatten([i \in DOMAIN t.fields |->
                IF HasChoicesWithData(t.fields[i])
                THEN <<t.fields[i].Name, ValueField(t.fields[i].Name)>>
                ELSE <<t.fields[i].Name>>])

(***************************************************************************)
(* SpecBuild: the caller writes a raw specification, constructs templates  *)
(* from it and asks a constructed template for its field names.            *)
(***************************************************************************)
InitBuild ==
    /\ spec \in RawSpecs
    /\ template = NoTemplate
    /\ parse_order = <<>>
    /\ doc = <<>>
    /\ last = NoCall
    /\ collector = FreshCollector
    /\ held = NoHeld
    /\ threads = <<>>

Constructed(c) ==
    /\ template' = c.template
    /\ spec' = c.spec
    /\ parse_order' \in Perms(DOMAIN _parse_mapping(c.template))
    /\ last' = [NoCall EXCEPT !.op = "MetadataTemplate", !.result = c.raised.error,
                              !.field = c.raised.field, !.spec = spec]
    /\ UNCHANGED <<doc, collector, held, threads>>

Construct == Constructed(MetadataTemplate(spec))

FieldNamesCall ==
    /\ template.constructed
    /\ last' = [NoCall EXCEPT !.op = "field_names", !.names = field_names(template)]
    /\ UNCHANGED <<template, parse_order, doc, collector, spec, held, threads>>

NextBuild ==
    \/ Construct
    \/ FieldNamesCall

SpecBuild == InitBuild /\ [][NextBuild]_vars

(***************************************************************************)
(* SpecCalls: every method of a constructed template called in any order   *)
(* on a document the caller edits in between.                              *)
(***************************************************************************)
CallSpecs ==
    {s \in RawSpecs : Len(SpecFields(s)) = 1 /\ s.HasLabel /\ MetadataTemplate(s).raised = Ok}

CallTemplates == {MetadataTemplate(s).template : s \in CallSpecs}

InitCalls ==
    /\ template \in CallTemplates
    /\ parse_order \in Perms(DOMAIN _parse_mapping(template))
    /\ doc = <<>>
    /\ last = NoCall
    /\ collector = FreshCollector
    /\ spec = NoSpec
    /\ held = NoHeld
    /\ threads = <<>>

NextCalls ==
    \/ AddRecord
    \/ SetField
    \/ FieldNamesCall
    \/ BoxMetadata
    \/ FormatLabel
    \/ ValidateField
    \/ ValidateBox
    \/ VisitDocument

SpecCalls == InitCalls /\ [][NextCalls]_vars

(***************************************************************************)
(* PrintVisitor.  missing_mandatory and failed_parse print the name box,   *)
(* which is neither a parameter nor a global: the call raises NameError,   *)
(* which leaves visit_document at that callback.  The boxes up to the one  *)
(* being visited have had their labels formatted, the others are untouched.*)
(***************************************************************************)
PrintVisitor_callback(e) ==
    IF e.ev \in {"missing_mandatory", "failed_parse"} THEN "NameError" ELSE "ok"

PrintStop(d, vd, raising) ==
    IF raising = {} THEN vd
    ELSE [events |-> SubSeq(vd.events, 1, First(raising)),
          raised |-> PrintVisitor_callback(vd.events[First(raising)]),
          doc |-> [k \in DOMAIN d |->
                      IF k - 1 <= vd.events[First(raising)].index THEN vd.doc[k] ELSE d[k]]]

PrintVisited(d, vd) ==
    PrintStop(d, vd, {i \in DOMAIN vd.events : PrintVisitor_callback(vd.events[i]) # "ok"})

Printed(vd) ==
    /\ doc' = vd.doc
    /\ last' = [NoCall EXCEPT !.op = "visit_document", !.result = vd.raised,
                              !.events = vd.events]
    /\ UNCHANGED <<template, parse_order, collector, spec, held, threads>>

VisitDocumentPrint ==
    \E co \in Perms(Duplicated(template, doc)) :
        Printed(PrintVisited(doc, visit_document(template, parse_order, doc, co)))

(***************************************************************************)
(* SpecPrint: traversals of a document with a PrintVisitor.                *)
(***************************************************************************)
InitPrint ==
    /\ template \in Templates
    /\ parse_order \in Perms(DOMAIN _parse_mapping(template))
    /\ doc = <<>>
    /\ last = NoCall
    /\ collector = FreshCollector
    /\ spec = NoSpec
    /\ held = NoHeld
    /\ threads = <<>>

NextPrint ==
    \/ AddRecord
    \/ SetField
    \/ VisitDocumentPrint

SpecPrint == InitPrint /\ [][NextPrint]_vars

(***************************************************************************)
(* SpecCollect: one CollectVisitor instance used for successive            *)
(* traversals of a document the caller edits in between.                   *)
(***************************************************************************)
CollectTemplates ==
    {t \in Templates : Len(t.fields) = 1 /\ IsMandatoryField(t.fields[1])}

InitCollect ==
    /\ template \in CollectTemplates
    /\ parse_order \in Perms(DOMAIN _parse_mapping(template))
    /\ doc = <<>>
    /\ last = NoCall
    /\ collector = FreshCollector
    /\ spec = NoSpec
    /\ held = NoHeld
    /\ threads = <<>>

(***************************************************************************)
(* A report the caller keeps holds the four list objects that the          *)
(* collector's attributes named when all_problems returned it (shares).    *)
(* begin_visit binds the attributes to new lists, after which the report's *)
(* lists are no longer the collector's; a callback appends in place, which *)
(* a report that shares the lists sees.                                    *)
(***************************************************************************)
(* begin_visit that empties the lists in place *)
Held_begin_visit_clears(h) == IF h.shares THEN [h EXCEPT !.lists = NoReport] ELSE h

Held_begin_visit(h) == [h EXCEPT !.shares = FALSE]

Held_callback(h, c) ==
    IF h.shares THEN [h EXCEPT !.lists = all_problems(c).returned] ELSE h

HeldStep(h, c, e) ==
    IF e.ev = "begin_visit" THEN Held_begin_visit(h) ELSE Held_callback(h, c)

RECURSIVE HeldDeliver(_, _, _)
HeldNext(h, c, events) == HeldDeliver(HeldStep(h, c, Head(events)), c, Tail(events))

HeldDeliver(h, c, events) ==
    IF events = <<>> THEN h ELSE HeldNext(h, Callback(c, Head(events)), events)

Collected(vd) ==
    /\ doc' = vd.doc
    /\ collector' = IF vd.raised = "ok" THEN Deliver(collector, vd.events) ELSE collector
    /\ last' = [NoCall EXCEPT !.op = "visit_document", !.result = vd.raised,
                              !.events = vd.events, !.before = collector]
    /\ UNCHANGED <<template, parse_order, spec, held, threads>>

VisitDocumentCollect ==
    \E co \in Perms(Duplicated(template, doc)) :
        Collected(visit_document(template, parse_order, doc, co))

Reported_problems(ap) ==
    /\ last' = [NoCall EXCEPT !.op = "all_problems", !.result = ap.raised,
                              !.report = ap.returned]
    /\ UNCHANGED <<template, parse_order, doc, collector, spec, held, threads>>

AllProblems == Reported_problems(all_problems(collector))

NextCollect ==
    \/ AddRecord
    \/ SetField
    \/ VisitDocumentCollect
    \/ AllProblems

SpecCollect == InitCollect /\ [][NextCollect]_vars

(***************************************************************************)
(* SpecSnapshot: the caller keeps the report all_problems returns and goes *)
(* on editing the document and traversing it with the same collector.      *)
(***************************************************************************)
SnapshotTemplates == {t \in CollectTemplates : ~HasParser(t.fields[1])}

InitSnapshot ==
    /\ template \in SnapshotTemplates
    /\ parse_order \in Perms(DOMAIN _parse_mapping(template))
    /\ doc = <<>>
    /\ last = NoCall
    /\ collector = FreshCollector
    /\ spec = NoSpec
    /\ held = NoHeld
    /\ threads = <<>>

Kept(ap) ==
    /\ ap.raised = "ok"
    /\ held' = [obtained |-> TRUE, shares |-> TRUE, lists |-> ap.returned]
    /\ last' = [NoCall EXCEPT !.op = "all_problems", !.result = ap.raised,
                              !.report = ap.returned]
    /\ UNCHANGED <<template, parse_order, doc, collector, spec, threads>>

KeepReport == Kept(all_problems(collector))

CollectedKept(vd) ==
    /\ doc' = vd.doc
    /\ collector' = Deliver(collector, vd.events)
    /\ held' = HeldDeliver(held, collector, vd.events)
    /\ last' = [NoCall EXCEPT !.op = "visit_document", !.result = vd.raised,
                              !.events = vd.events, !.before = collector]
    /\ UNCHANGED <<template, parse_order, spec, threads>>

VisitDocumentKept ==
    \E co \in Perms(Duplicated(template, doc)) :
        CollectedKept(visit_document(template, parse_order, doc, co))

NextSnapshot ==
    \/ AddRecord
    \/ SetField
    \/ VisitDocumentKept
    \/ KeepReport

SpecSnapshot == InitSnapshot /\ [][NextSnapshot]_vars

(***************************************************************************)
(* SpecThreads: two visit_document calls on one template run               *)
(* concurrently, each on its own document with its own CollectVisitor.     *)
(* A thread is between two calls on its visitor or between two boxes; a    *)
(* step runs the call up to the next such point.  calls is the sequence of *)
(* calls a visitor has received, collector what it has collected.          *)
(***************************************************************************)
Documents ==
    UNION {[1..n -> RecordInputs(template)] : n \in 0..MaxRecords}

Thread(d) ==
    [input |-> d, doc |-> d, pc |-> "begin_visit", k |-> 1, co |-> <<>>,
     visitor |-> [calls |-> <<>>, collector |-> FreshCollector]]

InitThreads ==
    /\ template \in {t \in CollectTemplates : HasParser(t.fields[1])}
    /\ parse_order \in Perms(DOMAIN _parse_mapping(template))
    /\ doc = <<>>
    /\ last = NoCall
    /\ collector = FreshCollector
    /\ spec = NoSpec
    /\ held = NoHeld
    /\ \E d1 \in Documents, d2 \in Documents : threads = <<Thread(d1), Thread(d2)>>

(* every thread calling the visitor of the first *)
Mine_first(i) == 1

(* the thread whose visitor thread i was given *)
Mine(i) == i

BoxStepped(th, vb) ==
    [thread |-> [th EXCEPT !.doc[th.k] = vb.fields, !.k = th.k + 1], calls |-> vb.events]

LabelsStepped(th, vl, co) ==
    [thread |-> [th EXCEPT !.doc = vl.doc, !.pc = "end_visit", !.co = co],
     calls |-> vl.events]

Stepped(th, co) ==
    CASE th.pc = "begin_visit" ->
             [thread |-> [th EXCEPT !.pc = "boxes"],
              calls |-> <<Event("begin_visit", -1, "", "")>>]
      [] th.pc = "boxes" /\ th.k <= Len(th.doc) ->
             BoxStepped(th, _visit_box(template, parse_order, th.k - 1, th.doc[th.k]))
      [] th.pc = "boxes" /\ th.k > Len(th.doc) ->
             LabelsStepped(th, _visit_labels(template, th.doc, co), co)
      [] th.pc = "end_visit" ->
             [thread |-> [th EXCEPT !.pc = "done"],
              calls |-> <<Event("end_visit", -1, "", "")>>]

Called(v, calls) ==
    [calls |-> v.calls \o calls, collector |-> Deliver(v.collector, calls)]

Run(i, st) ==
    /\ threads' = [[threads EXCEPT ![i] = [st.thread EXCEPT !.visitor = threads[i].visitor]]
                       EXCEPT ![Mine(i)].visitor = Called(@, st.calls)]
    /\ UNCHANGED <<template, parse_order, doc, last, collector, spec, held>>

ThreadStep ==
    \E i \in DOMAIN threads :
        /\ threads[i].pc # "done"
        /\ \E co \in Perms(Duplicated(template, threads[i].doc)) :
               Run(i, Stepped(threads[i], co))

NextThreads == ThreadStep

SpecThreads == InitThreads /\ [][NextThreads]_vars

(***************************************************************************)
(* Properties                                                              *)
(***************************************************************************)
CalledOn(op) == last.op = op

FieldOf(t, name) == CHOOSE f \in Range(t.fields) : f.Name = name

AbsentOrEmpty(fields, name) == name \notin DOMAIN fields \/ fields[name] = ""

(* C1: no call of box_metadata, format_label or visit_document changes a
   key or a value of a record's fields, and the mapping box_metadata
   returns is not the record's own fields object. *)
C1_CallerRecordsNeverMutated ==
    [][last'.op \in {"box_metadata", "format_label", "visit_document"}
          => /\ doc' = doc
             /\ (last'.op = "box_metadata" => ~last'.same_object)]_vars

RecordValid(t, fields) ==
    \A i \in DOMAIN t.fields :
        LET f == t.fields[i]
        IN  /\ f.Mandatory => ~AbsentOrEmpty(fields, f.Name)
            /\ (f.Name \in DOMAIN fields /\ f.Parser # NoParser)
                   => parse(f.Parser, fields[f.Name]) = "ok"

(* C2: validate_box returns True exactly when no mandatory field is absent
   or empty in the record and every declared field that is present and has
   a parser parses; a non-mandatory field that is absent plays no part. *)
C2_ValidateRecordIff ==
    CalledOn("validate_box") =>
        /\ last.result \in {"True", "False"}
        /\ (last.result = "True") <=> RecordValid(template, doc[last.index + 1])

C2_Witness ==
    /\ CalledOn("validate_box")
    /\ last.result = "True"
    /\ \E f \in Range(template.fields) : ~f.Mandatory /\ f.Name \notin DOMAIN doc[last.index + 1]
    /\ \E f \in Range(template.fields) : f.Parser # NoParser /\ f.Name \in DOMAIN doc[last.index + 1]

(* C3: validate_field returns True for a field name the template does not
   declare, whatever the value, the empty value included. *)
C3_UnknownFieldValid ==
    (CalledOn("validate_field") /\ last.field \notin DeclaredNames(template))
        => last.result = "True"

C3_Witness ==
    /\ CalledOn("validate_field")
    /\ last.field \notin DeclaredNames(template)
    /\ last.value = ""
    /\ last.result = "True"

FieldInvalid(f, value) ==
    \/ f.Mandatory /\ value = ""
    \/ value # "" /\ f.Parser # NoParser /\ parse(f.Parser, value) # "ok"

(* C4: for a declared field validate_field returns False exactly when the
   field is mandatory and the value empty, or the value is non-empty and the
   field's parser fails on it; otherwise it returns True, so an empty value
   of a non-mandatory field is valid even where its parser rejects it. *)
C4_DeclaredFieldInvalidIff ==
    (CalledOn("validate_field") /\ last.field \in DeclaredNames(template))
        => /\ last.result \in {"True", "False"}
           /\ (last.result = "False") <=> FieldInvalid(FieldOf(template, last.field), last.value)

C4_Witness ==
    /\ CalledOn("validate_field")
    /\ last.field \in DeclaredNames(template)
    /\ ~FieldOf(template, last.field).Mandatory
    /\ FieldOf(template, last.field).Parser # NoParser
    /\ parse(FieldOf(template, last.field).Parser, last.value) # "ok"
    /\ last.value = ""
    /\ last.result = "True"

OfKind(events, ev) == SelectSeq(events, LAMBDA e : e.ev = ev)

LabelOf(k) == format_label(template, doc[k]).returned

MandatoryMissing(fields) ==
    SelectSeq(template.fields, LAMBDA f : f.Mandatory /\ AbsentOrEmpty(fields, f.Name))

ParseFailing(fields) ==
    SelectSeq(template.fields,
              LAMBDA f : /\ f.Parser # NoParser
                         /\ f.Name \in DOMAIN fields
                         /\ parse(f.Parser, fields[f.Name]) # "ok")

EventPerField(ev, index, label, fs) ==
    [i \in DOMAIN fs |-> Event(ev, index, label, fs[i].Name)]

RecordProblems(k) ==
    Range(EventPerField("missing_mandatory", k - 1, LabelOf(k), MandatoryMissing(doc[k])))
    \cup Range(EventPerField("failed_parse", k - 1, LabelOf(k), ParseFailing(doc[k])))

LabelProblems ==
    {Event("missing_label", k - 1, "", "") : k \in {j \in DOMAIN doc : LabelOf(j) = ""}}
    \cup {Event("duplicated_labels", -1, LabelOf(k), "") :
              k \in {j \in DOMAIN doc :
                        LabelOf(j) # "" /\ \E i \in DOMAIN doc : i # j /\ LabelOf(i) = LabelOf(j)}}

NoRepeat(events) == \A i, j \in DOMAIN events : events[i] = events[j] => i = j

(* C6: a traversal never stops early: it ends with end_visit whatever it
   found, the problems reported for a record are those of that record alone,
   whatever the records before it had, and each problem of the document is
   reported once. *)
C6_TraversalNeverShortCircuits ==
    CalledOn("visit_document") =>
        /\ last.result = "ok"
        /\ last.events[Len(last.events)].ev = "end_visit"
        /\ \A k \in DOMAIN doc :
               {e \in Range(last.events) :
                   e.ev \in {"missing_mandatory", "failed_parse"} /\ e.index = k - 1}
               = RecordProblems(k)
        /\ {e \in Range(last.events) : e.ev \in {"missing_label", "duplicated_labels"}}
               = LabelProblems
        /\ NoRepeat(last.events)

C6_Witness ==
    /\ CalledOn("visit_document")
    /\ Len(doc) >= 2
    /\ RecordProblems(1) # {}
    /\ RecordProblems(2) # {}
    /\ LabelProblems # {}
    /\ last.events[Len(last.events)].ev = "end_visit"

(* C7: the missing_mandatory reports of a traversal are, record by record in
   document order and within a record in the declared field order, one per
   mandatory field that is absent or empty, each with the record's label. *)
C7_MissingMandatoryInDeclaredOrder ==
    CalledOn("visit_document") =>
        OfKind(last.events, "missing_mandatory")
        = Flatten([k \in DOMAIN doc |->
              EventPerField("missing_mandatory", k - 1, LabelOf(k), MandatoryMissing(doc[k]))])

C7_Witness ==
    /\ CalledOn("visit_document")
    /\ \E k \in DOMAIN doc : Len(MandatoryMissing(doc[k])) >= 2
    /\ \E k \in DOMAIN doc : Len(MandatoryMissing(doc[k])) = 0
    /\ Len(OfKind(last.events, "missing_mandatory")) >= 2

(* C8: the failed_parse reports of a traversal are, record by record and
   within a record in the declared field order, one per declared field with
   a parser that is present in the record and fails to parse. *)
C8_FailedParseInDeclaredOrder ==
    CalledOn("visit_document") =>
        OfKind(last.events, "failed_parse")
        = Flatten([k \in DOMAIN doc |->
              EventPerField("failed_parse", k - 1, LabelOf(k), ParseFailing(doc[k]))])

(* C9: duplicated_labels is reported once for each non-empty label that two
   or more records have, and for no other label: not for a label that occurs
   once, not for the empty label. *)
C9_DuplicatedLabelsOncePerLabel ==
    CalledOn("visit_document") =>
        /\ NoRepeat(OfKind(last.events, "duplicated_labels"))
        /\ {e.label : e \in Range(OfKind(last.events, "duplicated_labels"))}
               = {l \in {LabelOf(k) : k \in DOMAIN doc} :
                     l # "" /\ Cardinality({k \in DOMAIN doc : LabelOf(k) = l}) >= 2}

C9_Witness ==
    /\ CalledOn("visit_document")
    /\ \E i, j \in DOMAIN doc : i # j /\ LabelOf(i) = LabelOf(j) /\ LabelOf(i) # ""
    /\ Len(OfKind(last.events, "duplicated_labels")) = 1

(* C10: missing_label is reported once for each record whose label is empty,
   for no other record, in increasing index order. *)
C10_MissingLabelPerEmptyLabel ==
    CalledOn("visit_document") =>
        OfKind(last.events, "missing_label")
        = [i \in DOMAIN SelectSeq([k \in DOMAIN doc |-> k], LAMBDA k : LabelOf(k) = "") |->
              Event("missing_label",
                    SelectSeq([k \in DOMAIN doc |-> k], LAMBDA k : LabelOf(k) = "")[i] - 1, "", "")]

C10_Witness ==
    /\ CalledOn("visit_document")
    /\ Len(doc) >= 2
    /\ \A k \in DOMAIN doc : LabelOf(k) = ""
    /\ Len(OfKind(last.events, "missing_label")) = Len(doc)
    /\ OfKind(last.events, "duplicated_labels") = <<>>

(* C11: a traversal calls begin_visit once, before every other callback,
   and end_visit once, after every other callback. *)
C11_BeginFirstEndLast ==
    CalledOn("visit_document") =>
        /\ Len(OfKind(last.events, "begin_visit")) = 1
        /\ Len(OfKind(last.events, "end_visit")) = 1
        /\ last.events[1].ev = "begin_visit"
        /\ last.events[Len(last.events)].ev = "end_visit"

C11_Witness ==
    /\ CalledOn("visit_document")
    /\ OfKind(last.events, "missing_mandatory") # <<>>
    /\ OfKind(last.events, "failed_parse") # <<>>
    /\ OfKind(last.events, "missing_label") # <<>>
    /\ last.events[1].ev = "begin_visit"
    /\ last.events[Len(last.events)].ev = "end_visit"

(* C12: after a traversal with a CollectVisitor that has been used before,
   all_problems() is the report a fresh CollectVisitor gives for that
   traversal: one entry per problem callback of the traversal, none from
   earlier traversals. *)
C12_CollectorResetsOnBegin ==
    CalledOn("visit_document") =>
        /\ all_problems(collector) = all_problems(Deliver(FreshCollector, last.events))
        /\ Len(collector.missing_mandatory) = Len(OfKind(last.events, "missing_mandatory"))
        /\ Len(collector.failed_parse) = Len(OfKind(last.events, "failed_parse"))
        /\ Len(collector.missing_label) = Len(OfKind(last.events, "missing_label"))
        /\ Len(collector.duplicated_labels) = Len(OfKind(last.events, "duplicated_labels"))

C12_Witness ==
    /\ CalledOn("visit_document")
    /\ last.before.begun
    /\ last.before.missing_mandatory # <<>>
    /\ collector.missing_mandatory = <<>>
    /\ collector.failed_parse # <<>>

(* C13: every failed_parse entry of the collector holds the record's index
   in index, the record's label in label and the field's name in field. *)
C13_FailedParseEntryLayout ==
    CalledOn("visit_document") =>
        \A i \in DOMAIN collector.failed_parse :
            /\ i \in DOMAIN OfKind(last.events, "failed_parse")
            /\ collector.failed_parse[i].index =
                   PyInt(OfKind(last.events, "failed_parse")[i].index)
            /\ collector.failed_parse[i].label =
                   PyStr(OfKind(last.events, "failed_parse")[i].label)
            /\ collector.failed_parse[i].field =
                   PyStr(OfKind(last.events, "failed_parse")[i].field)

(***************************************************************************)
(* Construction rules, stated on the raw specification                     *)
(***************************************************************************)
HasRepeat(values) ==
    \E i \in DOMAIN values : \E j \in DOMAIN values : i # j /\ values[i] = values[j]

FieldWithoutName(fields) == \E i \in DOMAIN fields : ~fields[i].HasName

NamesRepeated(fields) ==
    \E i \in DOMAIN fields : \E j \in DOMAIN fields :
        i # j /\ fields[i].HasName /\ fields[j].HasName /\ fields[i].Name = fields[j].Name

BothKinds(fields) == \E i \in DOMAIN fields : fields[i].HasChoices /\ fields[i].HasCWD

ChoicesBad(fields) ==
    \E i \in DOMAIN fields :
        fields[i].HasChoices /\ (fields[i].Choices = <<>> \/ HasRepeat(fields[i].Choices))

CWDVocabularyBad(fields) ==
    \E i \in DOMAIN fields :
        /\ fields[i].HasCWD
        /\ fields[i].ChoicesWithData = <<>> \/ HasRepeat(SpecLabels(fields[i]))

ValueFieldDeclared(fields) ==
    \E i \in DOMAIN fields : \E j \in DOMAIN fields :
        /\ fields[i].HasCWD /\ fields[i].HasName /\ fields[j].HasName
        /\ fields[j].Name = fields[i].Name \o "-value"

TemplateNameMissing(s) == ~s.HasName \/ s.Name = ""

FieldListMissing(s) == ~s.HasFields \/ s.Fields = <<>>

SuffixInvalid(s) == s.HasSuffix /\ s.Suffix \notin {".png", ".jpg"}

InRawFormat(s) == \A i \in DOMAIN SpecFields(s) : SpecFields(s)[i].CWDKind = "list"

ConstructionFailed == last.result # "ok" /\ ~template.constructed

(* C14: construction raises and no template is constructed when a field
   has no name, two fields have the same name, a field has both Choices and
   ChoicesWithData, or a Choices or ChoicesWithData vocabulary is empty or
   repeats a label. *)
C14_FieldRulesRejected ==
    (/\ CalledOn("MetadataTemplate")
     /\ \/ FieldWithoutName(SpecFields(last.spec))
        \/ NamesRepeated(SpecFields(last.spec))
        \/ BothKinds(SpecFields(last.spec))
        \/ ChoicesBad(SpecFields(last.spec))
        \/ CWDVocabularyBad(SpecFields(last.spec)))
    => ConstructionFailed

C14_Witness ==
    /\ CalledOn("MetadataTemplate")
    /\ InRawFormat(last.spec)
    /\ ~TemplateNameMissing(last.spec)
    /\ ~SuffixInvalid(last.spec)
    /\ Len(SpecFields(last.spec)) = 2
    /\ SpecFields(last.spec)[2].Choices = <<>>
    /\ last.result = "Empty Choices"
    /\ ConstructionFailed

(* C15: construction raises when a ChoicesWithData field named n is declared
   with a field named "n-value"; no constructed template has a synthesized
   name that is also a declared name. *)
C15_ValueFieldNeverDeclared ==
    /\ (CalledOn("MetadataTemplate") /\ ValueFieldDeclared(SpecFields(last.spec)))
           => ConstructionFailed
    /\ template.constructed =>
           \A i \in DOMAIN template.fields :
               HasChoicesWithData(template.fields[i]) =>
                   ValueField(template.fields[i].Name) \notin DeclaredNames(template)

C15_Witness ==
    /\ CalledOn("MetadataTemplate")
    /\ InRawFormat(last.spec)
    /\ ValueFieldDeclared(SpecFields(last.spec))
    /\ last.result = "cannot be defined"
    /\ last.field = "sex-value"
    /\ ConstructionFailed

(* C16: construction raises when the template name is missing or empty or
   the field list is missing or empty; every constructed template has a
   non-empty name and at least one field. *)
C16_NameAndFieldsRequired ==
    /\ (CalledOn("MetadataTemplate")
        /\ (TemplateNameMissing(last.spec) \/ FieldListMissing(last.spec)))
           => ConstructionFailed
    /\ template.constructed =>
           /\ template.name \notin {"", None}
           /\ Len(template.fields) >= 1

C16_Witness ==
    /\ CalledOn("MetadataTemplate")
    /\ last.spec.HasName
    /\ last.spec.Name = ""
    /\ Len(SpecFields(last.spec)) >= 1
    /\ last.result = "No template name"
    /\ ConstructionFailed

RuleOf(error) ==
    CASE error = "One or more fields do not have a name" -> "1"
      [] error = "Duplicated fields" -> "2"
      [] error = "Both Choices and ChoicesWithData given" -> "3"
      [] error \in {"Duplicated Choices label", "Empty Choices"} -> "4"
      [] error \in {"cannot be defined", "Duplicated ChoicesWithData label",
                    "Empty ChoicesWithData"} -> "5"
      [] error = "No template name" -> "name"
      [] error = "No fields" -> "fields"
      [] error = "Invalid cropped file suffix" -> "6"
      [] OTHER -> error

EarliestFieldRule(fields) ==
    IF FieldWithoutName(fields) THEN "1"
    ELSE IF NamesRepeated(fields) THEN "2"
    ELSE IF BothKinds(fields) THEN "3"
    ELSE IF ChoicesBad(fields) THEN "4"
    ELSE IF CWDVocabularyBad(fields) \/ ValueFieldDeclared(fields) THEN "5"
    ELSE "ok"

(* the six rules in their stated order *)
EarliestStated(s) ==
    IF EarliestFieldRule(SpecFields(s)) # "ok" THEN EarliestFieldRule(SpecFields(s))
    ELSE IF SuffixInvalid(s) THEN "6"
    ELSE "ok"

(* the six rules with the template-name and field-list rules after rule 5 *)
EarliestRule(s) ==
    IF EarliestFieldRule(SpecFields(s)) # "ok" THEN EarliestFieldRule(SpecFields(s))
    ELSE IF TemplateNameMissing(s) THEN "name"
    ELSE IF FieldListMissing(s) THEN "fields"
    ELSE IF SuffixInvalid(s) THEN "6"
    ELSE "ok"

(* C17 as stated: the error raised for a raw specification that violates
   some of the rules (1)..(6) is the error of the earliest of them that it
   violates. *)
C17_EarliestStatedRule ==
    (/\ CalledOn("MetadataTemplate")
     /\ InRawFormat(last.spec)
     /\ EarliestStated(last.spec) # "ok")
    => RuleOf(last.result) = EarliestStated(last.spec)

(* C17: the error raised for a raw specification is the error of the
   earliest rule it violates in the order (1) field without name,
   (2) duplicated names, (3) both vocabulary kinds, (4) Choices,
   (5) ChoicesWithData, then template name missing or empty, then no
   fields, then (6) invalid cropped suffix. *)
C17_EarliestRule ==
    (CalledOn("MetadataTemplate") /\ InRawFormat(last.spec))
    => RuleOf(last.result) = EarliestRule(last.spec)

C17_Witness ==
    /\ CalledOn("MetadataTemplate")
    /\ InRawFormat(last.spec)
    /\ Len(SpecFields(last.spec)) = 2
    /\ CWDVocabularyBad(<<SpecFields(last.spec)[1]>>)
    /\ ChoicesBad(<<SpecFields(last.spec)[2]>>)
    /\ TemplateNameMissing(last.spec)
    /\ SuffixInvalid(last.spec)
    /\ RuleOf(last.result) = "4"
    /\ last.field = SpecFields(last.spec)[2].Name

RECURSIVE NamesInOrder(_)
NamesInOrder(fields) ==
    IF fields = <<>> THEN <<>>
    ELSE <<Head(fields).Name>>
         \o (IF HasChoicesWithData(Head(fields)) THEN <<Head(fields).Name \o "-value">>
             ELSE <<>>)
         \o NamesInOrder(Tail(fields))

(* C20: field_names() yields the declared names in declared order, the name
   of each ChoicesWithData field followed at once by its "-value" name, and
   nothing else. *)
C20_FieldNamesInDeclaredOrder ==
    CalledOn("field_names") => last.names = NamesInOrder(template.fields)

C20_Witness ==
    /\ CalledOn("field_names")
    /\ Len(template.fields) = 2
    /\ HasChoicesWithData(template.fields[1])
    /\ last.names = <<"sex-value", "sex-value-value", "sex">>

(* C18: box_metadata returns the record's entries and, for each
   ChoicesWithData field, the entry "<name>-value" with the label's data
   when the record's raw value is a label, and no such entry when the field
   is absent or its raw value is no label. *)
C18_RecordMetadataEntries ==
    CalledOn("box_metadata") =>
        /\ \A n \in DOMAIN doc[last.index + 1] :
               n \in DOMAIN last.md /\ last.md[n] = doc[last.index + 1][n]
        /\ \A i \in DOMAIN template.fields :
               HasChoicesWithData(template.fields[i]) =>
                   IF Get(doc[last.index + 1], template.fields[i].Name)
                          \in Labels(template.fields[i].ChoicesWithData)
                   THEN Get(last.md, ValueField(template.fields[i].Name)) =
                            Data(template.fields[i].ChoicesWithData,
                                 Get(doc[last.index + 1], template.fields[i].Name))
                   ELSE ValueField(template.fields[i].Name) \notin DOMAIN last.md

Matching(fields) ==
    {f \in Range(template.fields) :
        HasChoicesWithData(f) /\ Get(fields, f.Name) \in Labels(f.ChoicesWithData)}

MetadataOf(fields) ==
    [n \in DOMAIN fields \cup {ValueField(f.Name) : f \in Matching(fields)} |->
        IF \E f \in Matching(fields) : n = ValueField(f.Name)
        THEN LET f == CHOOSE g \in Matching(fields) : n = ValueField(g.Name)
             IN  Data(f.ChoicesWithData, fields[f.Name])
        ELSE fields[n]]

Substitute(seg, md) ==
    IF seg.kind = "literal" THEN seg.text
    ELSE IF seg.text \in DOMAIN md THEN md[seg.text]
    ELSE ""

RECURSIVE Joined(_, _, _)
Joined(fmt, md, n) ==
    IF n = 0 THEN "" ELSE Joined(fmt, md, n - 1) \o Substitute(fmt[n], md)

(* C19: format_label returns the label format with each placeholder
   replaced by the value of that name in the record's metadata, synthesized
   "<name>-value" entries included, and by the empty string when the
   metadata has no such name; it raises nothing. *)
C19_FormatLabelSubstitutes ==
    CalledOn("format_label") =>
        last.result = Joined(template.label, MetadataOf(doc[last.index + 1]),
                             Len(template.label))

C19_Witness ==
    /\ CalledOn("format_label")
    /\ template.label = <<Ph("sex"), Ph("sex-value")>>
    /\ "sex-value" \in DOMAIN doc[last.index + 1]
    /\ last.result = "MMale"

(* C21: no call of field_names, box_metadata, format_label,
   validate_field, validate_box or visit_document changes the template: its
   fields, from which the mandatory list, the parser lookup and the
   ChoicesWithData lookup are read, its label format, its cropped suffix
   and the iteration order of its parser lookup stay as constructed. *)
C21_TemplateNeverMutated ==
    [][template' = template /\ parse_order' = parse_order]_vars

C21_Witness ==
    /\ CalledOn("field_names")
    /\ template.fields[1].Name = "sex"
    /\ HasChoicesWithData(template.fields[1])
    /\ Len(doc) = 2
    /\ \A k \in DOMAIN doc : "sex-value" \in DOMAIN doc[k]
    /\ last.names = <<"sex", "sex-value">>

(* C23: a traversal with a PrintVisitor completes for every document: no
   callback raises and end_visit is the last call made. *)
C23_PrintVisitorCompletes ==
    CalledOn("visit_document") =>
        /\ last.result = "ok"
        /\ last.events[Len(last.events)].ev = "end_visit"

(* C24: whatever edits and calls came before, the mapping box_metadata
   returns has the entry "<name>-value" of a ChoicesWithData field only if
   the record's raw value of that field is now a label of the vocabulary,
   and then with the data of that label. *)
C24_NoStaleDerivedValue ==
    CalledOn("box_metadata") =>
        \A f \in Range(template.fields) :
            (HasChoicesWithData(f) /\ ValueField(f.Name) \in DOMAIN last.md) =>
                /\ Get(last.md, f.Name) \in Labels(f.ChoicesWithData)
                /\ last.md[ValueField(f.Name)] =
                       Data(f.ChoicesWithData, Get(last.md, f.Name))

ValueOrEmpty(fields, name) == IF name \in DOMAIN fields THEN fields[name] ELSE ""

EveryFieldValid(fields) ==
    \A name \in DeclaredNames(template) :
        validate_field(template, name, ValueOrEmpty(fields, name)) = "True"

PresentEmptyParse(fields) ==
    \A name \in DOMAIN _parse_mapping(template) :
        (name \in DOMAIN fields /\ fields[name] = "") =>
            parse(_parse_mapping(template)[name], "") = "ok"

(* C26 as stated: validate_box is true for a record exactly when
   validate_field is true for every declared field with the record's value
   of the field, the empty value when the record has none. *)
C26_RecordAgreesWithFields ==
    CalledOn("validate_box") =>
        (last.result = "True" <=> EveryFieldValid(doc[last.index + 1]))

(* C26: validate_box is true for a record exactly when validate_field is
   true for every declared field with the record's value of the field (the
   empty value when the record has none) and every field with a parser that
   the record holds with an empty value is parsed successfully. *)
C26_RecordAgreesUpToPresentEmpty ==
    CalledOn("validate_box") =>
        (last.result = "True" <=>
            (EveryFieldValid(doc[last.index + 1]) /\ PresentEmptyParse(doc[last.index + 1])))

C26_Witness ==
    /\ CalledOn("validate_box")
    /\ last.result = "False"
    /\ EveryFieldValid(doc[last.index + 1])
    /\ \E f \in Range(template.fields) :
           /\ ~f.Mandatory
           /\ HasParser(f)
           /\ f.Name \in DOMAIN doc[last.index + 1]
           /\ doc[last.index + 1][f.Name] = ""

(* C27: constructing a template leaves the caller's specification as it
   was before the call. *)
C27_SpecificationNotModified ==
    CalledOn("MetadataTemplate") => spec = last.spec

(* C28: in the calls of one traversal every missing_mandatory and
   failed_parse call comes before every missing_label call, every
   missing_label call before every duplicated_labels call; the calls for a
   record come before those for a later record, and for one record the
   missing_mandatory calls come before the failed_parse calls. *)
Phase(e) ==
    CASE e.ev = "begin_visit" -> 0
      [] e.ev \in {"missing_mandatory", "failed_parse"} -> 1
      [] e.ev = "missing_label" -> 2
      [] e.ev = "duplicated_labels" -> 3
      [] OTHER -> 4

Step(e) == IF e.ev = "missing_mandatory" THEN 0 ELSE 1

C25_AnyProblemsIff ==
    CalledOn("visit_document") =>
        /\ ~any_problems(all_problems(collector).returned) <=>
               /\ \A k \in DOMAIN doc : validate_box(template, parse_order, doc[k]) = "True"
               /\ \A k \in DOMAIN doc : LabelOf(k) # ""
               /\ \A j \in DOMAIN doc : \A k \in DOMAIN doc : j # k => LabelOf(j) # LabelOf(k)
        /\ any_problems(all_problems(collector).returned) <=>
               \/ Len(collector.missing_mandatory) > 0
               \/ Len(collector.failed_parse) > 0
               \/ Len(collector.missing_label) > 0
               \/ Len(collector.duplicated_labels) > 0

C25_Witness ==
    /\ CalledOn("visit_document")
    /\ Len(doc) = 2
    /\ all_problems(collector).raised = "ok"
    /\ ~any_problems(all_problems(collector).returned)

(* C29: all_problems returns a report in every state of the collector; on
   an instance on which begin_visit was never called the report has four
   empty lists. *)
C29_AllProblemsAlwaysReturns ==
    CalledOn("all_problems") =>
        /\ last.result = "ok"
        /\ ~collector.begun => (last.report = NoReport /\ ~any_problems(last.report))

(* C30: a traversal that reuses the collector leaves the four lists of a
   report obtained from all_problems before it as they were. *)
C30_ReportIsSnapshot ==
    [][(held.obtained /\ last'.op = "visit_document") => held'.lists = held.lists]_vars

C30_Witness ==
    /\ CalledOn("visit_document")
    /\ held.obtained
    /\ held.lists.missing_mandatory # <<>>
    /\ held.lists.duplicated_labels = <<>>
    /\ collector.missing_mandatory = <<>>
    /\ collector.duplicated_labels # <<>>

(* C22: when two traversals of different documents run concurrently on
   one template, each with its own CollectVisitor, each visitor receives
   the calls, and collects the report, of the same traversal run alone. *)
Alone(th) == visit_document(template, parse_order, th.input, th.co)

C22_ConcurrentAsAlone ==
    \A i \in DOMAIN threads :
        threads[i].pc = "done" =>
            /\ threads[i].visitor.calls = Alone(threads[i]).events
            /\ all_problems(threads[i].visitor.collector) =
                   all_problems(Deliver(FreshCollector, Alone(threads[i]).events))
            /\ threads[i].doc = Alone(threads[i]).doc

C22_Witness ==
    /\ Len(threads) = 2
    /\ \A i \in DOMAIN threads : threads[i].pc = "done"
    /\ threads[1].input # threads[2].input
    /\ \A i \in DOMAIN threads : Len(threads[i].input) = 2
    /\ threads[1].visitor.collector.failed_parse # <<>>
    /\ threads[2].visitor.collector.duplicated_labels # <<>>

====
